---- MODULE Spec2Model ----
(***************************************************************************)
(* A model of dcm's filter / transform engine (dcm/filt.py).               *)
(*                                                                         *)
(*   - LazySet algebra (dcm/lazyset.py, modelled from its contract)        *)
(*   - Filter / MultiFilter capability sets                                *)
(*   - DummyTransform / FilterTransform over QueryResult collections       *)
(*     (dcm/query.py, modelled from its contract)                          *)
(***************************************************************************)
EXTENDS Integers, Sequences, FiniteSets, TLC

VARIABLES
    fdecl,      \* arguments given to Filter(...): read / write / invertible
    filt,       \* the Filter after __post_init__, or NotMade
    filters,    \* MultiFilter.filters: sequence of constructed Filters
    mfilt,      \* the MultiFilter after __post_init__, or NotMade
    deps,       \* the last get_dependencies call and its result, or NotMade
    applied,    \* the last MultiFilter call and its result, or NotMade
    report,     \* a MultiListReport and its sub-reports, or NotMade
    rlast,      \* the last call on a report and its outcome
    crawl,      \* _dir_crawl_worker: its loop state and the shutdown event
    resq,       \* gen_chunks: res_q, the chunks put and not yet taken
    gen,        \* gen_chunks: the consumer's position and what it yielded
    send,       \* LocalDir.send: caller, send_q and _disk_write_worker
    wreport,    \* LocalDir.send: the LocalWriteReport
    pc,         \* transform engine: "start" | "dummy" | "filter" | "failed"
    srcFilt,    \* get_transform arguments: the filter (NoFilter for None)
    level,      \* QueryResult.level of old / new
    old,        \* DataTransform.old
    new,        \* DataTransform.new
    n2o,        \* FilterTransform._new_to_old
    fixedInc,   \* FilterTransform.fixed_inconsistent
    fixedDup,   \* FilterTransform.fixed_duplicates
    fullyInv,   \* FilterTransform.fully_invertible
    pairs,      \* history: (old_ds, new_ds) pairs committed so far
    nAdds,      \* number of add calls made so far
    last        \* the last call and its outcome

vars == <<fdecl, filt, filters, mfilt, deps, applied, report, rlast, crawl,
          resq, gen, send, wreport, pc, srcFilt, level, old, new, n2o,
          fixedInc, fixedDup, fullyInv, pairs, nAdds, last>>

filterVars == <<fdecl, filt>>
chainVars  == <<filters, mfilt, deps, applied>>
reportVars == <<report, rlast>>
crawlVars  == <<crawl, resq, gen>>
sendVars   == <<send, wreport>>
ioVars     == <<reportVars, crawlVars, sendVars>>
engineVars == <<pc, srcFilt, level, old, new, n2o, fixedInc, fixedDup,
                fullyInv, pairs, nAdds, last>>

NoVal == "None"

(***************************************************************************)
(* Hierarchy levels and identifier attributes                              *)
(***************************************************************************)
\* QueryLevel, coarsest first; a level is its index in this sequence, so a
\* larger level is a finer one.
QueryLevel == <<"PATIENT", "STUDY", "SERIES", "IMAGE">>

Levels == 1..Len(QueryLevel)

\* uid_elems: level -> name of the identifier attribute of that level
uid_elems == <<"PatientID", "StudyInstanceUID", "SeriesInstanceUID",
               "SOPInstanceUID">>

\* A stand-in for any attribute that is no hierarchy identifier
OtherElem == "PatientName"

\* The attribute names the model probes sets with
ElemNames == {uid_elems[l] : l \in Levels} \cup {OtherElem}

(***************************************************************************)
(* LazySet: a finite set of names, or all names except a finite set        *)
(***************************************************************************)
LazySet(names) == [all : BOOLEAN, s : SUBSET names]

Explicit(S) == [all |-> FALSE, s |-> S]

AllElems == [all |-> TRUE, s |-> {}]

EmptySet == Explicit({})

LIn(x, a) == IF a.all THEN x \notin a.s ELSE x \in a.s

\* bool(a): a is not empty
LBool(a) == a.all \/ a.s # {}

LCompl(a) == [all |-> ~a.all, s |-> a.s]

LUnion(a, b) ==
    CASE ~a.all /\ ~b.all -> [all |-> FALSE, s |-> a.s \cup b.s]
      [] a.all /\ ~b.all  -> [all |-> TRUE, s |-> a.s \ b.s]
      [] ~a.all /\ b.all  -> [all |-> TRUE, s |-> b.s \ a.s]
      [] a.all /\ b.all   -> [all |-> TRUE, s |-> a.s \cap b.s]

LInter(a, b) ==
    CASE ~a.all /\ ~b.all -> [all |-> FALSE, s |-> a.s \cap b.s]
      [] a.all /\ ~b.all  -> [all |-> FALSE, s |-> b.s \ a.s]
      [] ~a.all /\ b.all  -> [all |-> FALSE, s |-> a.s \ b.s]
      [] a.all /\ b.all   -> [all |-> TRUE, s |-> a.s \cup b.s]

LDiff(a, b) == LInter(a, LCompl(b))

\* uid_elem_set = FrozenLazySet(uid_elems.values())
uid_elem_set == Explicit({uid_elems[l] : l \in Levels})

(***************************************************************************)
(* _BaseFilter / Filter                                                    *)
(***************************************************************************)
\* _BaseFilter.uninvertible_elems
uninvertible_elems(f) == LDiff(f.write_elems, f.invertible_elems)

\* _BaseFilter.invertible_uids
invertible_uids(f) == LDiff(uid_elem_set, uninvertible_elems(f))

\* Variant: __post_init__ leaves write_elems as declared
FilterPostInit_NoWiden(d) ==
    [read_elems       |-> d.read_elems,
     write_elems      |-> d.write_elems,
     invertible_elems |-> d.invertible_elems]

\* Filter.__post_init__ on the declared read / write / invertible sets
FilterPostInit(d) ==
    [read_elems       |-> d.read_elems,
     write_elems      |-> IF LBool(d.invertible_elems)
                          THEN LUnion(d.write_elems, d.invertible_elems)
                          ELSE d.write_elems,
     invertible_elems |-> d.invertible_elems]

\* Filter.get_dependencies(elems); 1 stands for self.func, the function of
\* the only filter there is
FilterGetDependencies(f, elems) ==
    [funcs |-> <<1>>, dep_elems |-> f.read_elems]

(***************************************************************************)
(* MultiFilter                                                             *)
(***************************************************************************)
\* The loop of MultiFilter.__post_init__ from filter i on, acc holding the
\* four accumulators
RECURSIVE MultiAcc(_, _, _)
MultiAcc(fs, i, acc) ==
    IF i > Len(fs) THEN acc
    ELSE MultiAcc(fs, i + 1,
           [read  |-> LUnion(acc.read, fs[i].read_elems),
            write |-> LUnion(acc.write, fs[i].write_elems),
            inv   |-> LUnion(acc.inv, fs[i].invertible_elems),
            uninv |-> LUnion(acc.uninv,
                             LDiff(fs[i].write_elems, fs[i].invertible_elems))])

\* Variant: the chain's invertible set is the plain union
MultiFilterPostInit_Union(fs) ==
    LET acc == MultiAcc(fs, 1, [read |-> EmptySet, write |-> EmptySet,
                                inv |-> EmptySet, uninv |-> EmptySet])
    IN  [read_elems       |-> acc.read,
         write_elems      |-> acc.write,
         invertible_elems |-> acc.inv]

\* MultiFilter.__post_init__
MultiFilterPostInit(fs) ==
    LET acc == MultiAcc(fs, 1, [read |-> EmptySet, write |-> EmptySet,
                                inv |-> EmptySet, uninv |-> EmptySet])
    IN  [read_elems       |-> acc.read,
         write_elems      |-> acc.write,
         invertible_elems |-> LDiff(acc.inv, acc.uninv)]

\* Variant: the pass accumulates the write sets of the selected filters
RECURSIVE DepLoop_AccWrites(_, _, _, _)
DepLoop_AccWrites(fs, i, elems, acc) ==
    IF i > Len(fs) THEN acc
    ELSE IF \/ LBool(LInter(acc.dep_elems, fs[i].write_elems))
            \/ LBool(LInter(elems, fs[i].write_elems))
    THEN DepLoop_AccWrites(fs, i + 1, elems,
           [funcs     |-> Append(acc.funcs, i),
            dep_elems |-> LUnion(acc.dep_elems, fs[i].write_elems)])
    ELSE DepLoop_AccWrites(fs, i + 1, elems, acc)

\* The loop of MultiFilter.get_dependencies from filter i on.  funcs holds
\* the positions of the filters whose func was appended.
RECURSIVE DepLoop(_, _, _, _)
DepLoop(fs, i, elems, acc) ==
    IF i > Len(fs) THEN acc
    ELSE IF \/ LBool(LInter(acc.dep_elems, fs[i].write_elems))
            \/ LBool(LInter(elems, fs[i].write_elems))
    THEN DepLoop(fs, i + 1, elems,
           [funcs     |-> Append(acc.funcs, i),
            dep_elems |-> LUnion(acc.dep_elems, fs[i].read_elems)])
    ELSE DepLoop(fs, i + 1, elems, acc)

\* Variant: only the requested set selects a filter
get_dependencies_RequestedOnly(fs, elems) ==
    LET sel == SelectSeq([i \in 1..Len(fs) |-> i],
                         LAMBDA i : LBool(LInter(elems, fs[i].write_elems)))
    IN  [funcs     |-> sel,
         dep_elems |-> Explicit({x \in ElemNames :
                          \E k \in DOMAIN sel :
                              LIn(x, fs[sel[k]].read_elems)})]

\* MultiFilter.get_dependencies(elems)
get_dependencies(fs, elems) ==
    DepLoop(fs, 1, elems, [funcs |-> <<>>, dep_elems |-> EmptySet])

(***************************************************************************)
(* Data sets and QueryResult (the hierarchical collection)                 *)
(***************************************************************************)
\* The identifier values in use, at any level
UIDs == {"1.1", "1.2"}

\* The identifier of the single study / series between patient and leaf
MidUid == "1.1"

\* A new_uid of None / a dict lookup that found nothing
NoUid == "None"

\* generate_uid on each identifier value: an injective remapping
GenerateUid == [u \in UIDs |-> IF u = "1.1" THEN "1.2" ELSE "1.1"]

\* A data set that is None
NoDs == <<>>

\* The data sets of level L: one identifier per level down to L.  The
\* patient and the level-L identifier vary; the levels between are a single
\* study / series.
DataSets(L) ==
    {ds \in [1..L -> UIDs] : \A l \in 2..(L - 1) : ds[l] = MidUid}

\* get_uid(level, data_set)
get_uid(lvl, ds) == ds[lvl]

Prefix(ds, l) == [k \in 1..l |-> ds[k]]

\* ds cannot be reconciled with qr: one of its identifiers is in qr below
\* other ancestors (contains / add raise InconsistentDataError)
QRInconsistent(qr, ds) ==
    \E r \in qr : \E l \in DOMAIN ds :
        /\ l \in DOMAIN r
        /\ r[l] = ds[l]
        /\ \E k \in 1..(l - 1) : r[k] # ds[k]

\* data_set in qr, when it does not raise
QRContains(qr, ds) == ds \in qr

\* qr.add(data_set)
QRAdd(qr, ds) == qr \cup {ds}

\* What qr.remove(data_set) does with a data set that is not in qr
RemoveModes == {"noop", "KeyError", "byUid"}

\* qr.remove(data_set): the collection afterwards
QRRemove(qr, ds, mode) ==
    IF ds \in qr THEN qr \ {ds}
    ELSE IF mode = "byUid"
         THEN {r \in qr : r[Len(ds)] # ds[Len(ds)]}
         ELSE qr

\* The outcomes that differ when old_ds is removed after the check of add
RemoveChoices(qr, ds) ==
    IF QRInconsistent(qr, ds) THEN RemoveModes ELSE {"noop"}

\* qr.remove(data_set) raises KeyError
QRRemoveRaises(qr, ds, mode) == ds \notin qr /\ mode = "KeyError"

\* qr.sub_query(DataNode(lvl, uid), max_level=lvl)
sub_query(qr, lvl, uid) == {Prefix(r, lvl) : r \in {x \in qr : x[lvl] = uid}}

\* The consistent collections of level L
QueryResults(L) ==
    {qr \in SUBSET DataSets(L) :
        \A r \in qr : ~QRInconsistent(qr \ {r}, r)}

\* The orders a collection can be iterated in
Orders(S) ==
    {o \in [1..Cardinality(S) -> S] :
        \A i, j \in 1..Cardinality(S) : i # j => o[i] # o[j]}

\* The data sets of S in the order `for ds in qr` yields them
RECURSIVE Iterate(_)
Iterate(S) ==
    IF S = {} THEN <<>>
    ELSE LET m == CHOOSE x \in S : TRUE
         IN  <<m>> \o Iterate(S \ {m})

(***************************************************************************)
(* The filters handed to get_transform                                     *)
(***************************************************************************)
\* Filter functions: data set -> data set, or NoDs to drop it
FilterFuncs == {"ident", "remap_uid", "collapse_uid", "drop_first",
                "split_patient"}

\* Filter.__call__: self.func(data_set)
ApplyFunc(fn, ds) ==
    LET L == Len(ds) IN
    CASE fn = "ident"         -> ds
      [] fn = "remap_uid"     -> [ds EXCEPT ![L] = GenerateUid[@]]
      [] fn = "collapse_uid"  -> [ds EXCEPT ![L] = MidUid]
      [] fn = "drop_first"    -> IF ds[L] = MidUid THEN NoDs ELSE ds
      [] fn = "split_patient" -> [ds EXCEPT ![1] = ds[L]]
      [] fn = "edit_func"     -> ds
      [] fn = "edit_func_update_uids" ->
                                 [l \in DOMAIN ds |-> GenerateUid[ds[l]]]

\* Declarations (write_elems, invertible_elems) the filters come with:
\* the defaults, the finest identifier written invertibly, and the patient
\* identifier written non-invertibly beside it
EngineDecls ==
    {[read_elems |-> AllElems, write_elems |-> AllElems,
      invertible_elems |-> EmptySet],
     [read_elems |-> AllElems, write_elems |-> Explicit({uid_elems[4]}),
      invertible_elems |-> Explicit({uid_elems[4]})],
     [read_elems |-> AllElems,
      write_elems |-> Explicit({uid_elems[1], uid_elems[4]}),
      invertible_elems |-> Explicit({uid_elems[4]})]}

\* filt is None
NoFilter == [func |-> NoVal, decl |-> FilterPostInit(
                [read_elems |-> AllElems, write_elems |-> AllElems,
                 invertible_elems |-> EmptySet])]

EngineFilters ==
    {[func |-> fn, decl |-> FilterPostInit(d)] :
        fn \in FilterFuncs, d \in EngineDecls}

\* The keywords of the edit_dict given to make_edit_filter
EditKeys == {OtherElem}

\* make_edit_filter(edit_dict, update_uids): edit_func sets the attributes
\* of edit_dict and, with update_uids, has update_uids_cb replace every
\* identifier by generate_uid of it
make_edit_filter(update_uids) ==
    [func |-> IF update_uids THEN "edit_func_update_uids" ELSE "edit_func",
     decl |-> FilterPostInit(
                [read_elems       |-> AllElems,
                 write_elems      |-> IF update_uids THEN AllElems
                                      ELSE Explicit(EditKeys),
                 invertible_elems |-> EmptySet])]

EditFilters == {make_edit_filter(u) : u \in BOOLEAN}

\* Filter(func): the filters a MultiFilter is called with, their declared
\* sets left at the defaults
ApplyFilters == {f \in EngineFilters : f.decl = NoFilter.decl}

\* Variant: a None from a sub-filter is skipped and the loop goes on with
\* the data set it had
CallLoop_SkipNone(fs, i, ds, calls) ==
    LET RECURSIVE go(_, _, _)
        go(k, d, cs) ==
            IF k > Len(fs) THEN [out |-> d, calls |-> cs]
            ELSE LET o == ApplyFunc(fs[k].func, d)
                     c == Append(cs, [i |-> k, arg |-> d, out |-> o])
                 IN  go(k + 1, IF o = NoDs THEN d ELSE o, c)
    IN  go(i, ds, calls)

\* The loop of MultiFilter.__call__ from filter i on; calls records each
\* invocation of a sub-filter: its position, its argument, what it returned
RECURSIVE CallLoop(_, _, _, _)
CallLoop(fs, i, ds, calls) ==
    IF i > Len(fs) THEN [out |-> ds, calls |-> calls]
    ELSE LET o == ApplyFunc(fs[i].func, ds)
             c == Append(calls, [i |-> i, arg |-> ds, out |-> o])
         IN  IF o = NoDs THEN [out |-> o, calls |-> c]
             ELSE CallLoop(fs, i + 1, o, c)

\* MultiFilter.__call__(data_set)
MultiFilterCall(fs, ds) == CallLoop(fs, 1, ds, <<>>)

(***************************************************************************)
(* FilterTransform                                                         *)
(***************************************************************************)
\* Number of add calls made on one engine
MaxAdds == 1

EmptyMap == [l \in Levels |-> [u \in UIDs |-> NoUid]]

EmptyLedger == [u \in UIDs |-> NoDs]

\* Variant: _add_new maps each new identifier to itself
AddNew_SelfMap(nw, map, L, old_ds, new_ds) ==
    IF QRInconsistent(nw, new_ds)
    THEN [exc |-> "InconsistentData", new |-> nw, n2o |-> map,
          new_uid |-> NoUid]
    ELSE IF QRContains(nw, new_ds)
    THEN [exc |-> NoVal, new |-> nw, n2o |-> map, new_uid |-> NoUid]
    ELSE [exc |-> NoVal,
          new |-> QRAdd(nw, new_ds),
          n2o |-> [l \in Levels |->
                     IF l <= L
                     THEN [map[l] EXCEPT ![get_uid(l, new_ds)] =
                                             get_uid(l, new_ds)]
                     ELSE map[l]],
          new_uid |-> get_uid(L, new_ds)]

\* Variant: _add_new maps the identifier of the collection's level only
AddNew_LeafOnly(nw, map, L, old_ds, new_ds) ==
    IF QRInconsistent(nw, new_ds)
    THEN [exc |-> "InconsistentData", new |-> nw, n2o |-> map,
          new_uid |-> NoUid]
    ELSE IF QRContains(nw, new_ds)
    THEN [exc |-> NoVal, new |-> nw, n2o |-> map, new_uid |-> NoUid]
    ELSE [exc |-> NoVal,
          new |-> QRAdd(nw, new_ds),
          n2o |-> [map EXCEPT ![L][get_uid(L, new_ds)] = get_uid(L, old_ds)],
          new_uid |-> get_uid(L, new_ds)]

\* FilterTransform._add_new on (self.new, self._new_to_old), self.old.level
\* being L.  new_uid = NoUid stands for the None returned for a duplicate.
AddNew(nw, map, L, old_ds, new_ds) ==
    IF QRInconsistent(nw, new_ds)
    THEN [exc |-> "InconsistentData", new |-> nw, n2o |-> map,
          new_uid |-> NoUid]
    ELSE IF QRContains(nw, new_ds)
    THEN [exc |-> NoVal, new |-> nw, n2o |-> map, new_uid |-> NoUid]
    ELSE [exc |-> NoVal,
          new |-> QRAdd(nw, new_ds),
          n2o |-> [l \in Levels |->
                     IF l <= L
                     THEN [map[l] EXCEPT ![get_uid(l, new_ds)] =
                                             get_uid(l, old_ds)]
                     ELSE map[l]],
          new_uid |-> get_uid(L, new_ds)]

\* The loop of FilterTransform.__init__ over the source, from position i
RECURSIVE InitLoop(_, _, _, _, _)
InitLoop(order, i, fn, L, st) ==
    IF i > Len(order) \/ st.exc # NoVal THEN st
    ELSE LET old_ds == order[i]
             new_ds == ApplyFunc(fn, old_ds)
         IN  IF new_ds = NoDs THEN InitLoop(order, i + 1, fn, L, st)
             ELSE LET r == AddNew(st.new, st.n2o, L, old_ds, new_ds)
                  IN  InitLoop(order, i + 1, fn, L,
                        [exc   |-> IF r.exc # NoVal THEN r.exc
                                   ELSE IF r.new_uid = NoUid
                                        THEN "DuplicateData" ELSE NoVal,
                         new   |-> r.new,
                         n2o   |-> r.n2o,
                         pairs |-> IF r.exc = NoVal /\ r.new_uid # NoUid
                                   THEN st.pairs \cup {<<old_ds, new_ds>>}
                                   ELSE st.pairs])

\* Variant: construction goes through when the filter made a duplicate
FilterTransformInit_IgnoreDup(order, fn, L) ==
    LET r == InitLoop(order, 1, fn, L,
                 [exc |-> NoVal, new |-> {}, n2o |-> EmptyMap, pairs |-> {}])
    IN  [r EXCEPT !.exc = IF @ = "DuplicateData" THEN NoVal ELSE @]

\* FilterTransform.__init__(qr, filt), the source iterated in this order
FilterTransformInit(order, fn, L) ==
    InitLoop(order, 1, fn, L,
             [exc |-> NoVal, new |-> {}, n2o |-> EmptyMap, pairs |-> {}])

\* Variant: old_ds goes into old whatever the membership test said
AddOld_Always(o, old_ds) ==
    IF QRInconsistent(o, old_ds)
    THEN [old_inconsistent |-> TRUE, old_dupe |-> FALSE,
          old |-> QRAdd(o, old_ds)]
    ELSE IF QRContains(o, old_ds)
    THEN [old_inconsistent |-> FALSE, old_dupe |-> TRUE, old |-> o]
    ELSE [old_inconsistent |-> FALSE, old_dupe |-> FALSE,
          old |-> QRAdd(o, old_ds)]

\* FilterTransform.add, the part on self.old before new_ds is looked at
AddOld(o, old_ds) ==
    IF QRInconsistent(o, old_ds)
    THEN [old_inconsistent |-> TRUE, old_dupe |-> FALSE, old |-> o]
    ELSE IF QRContains(o, old_ds)
    THEN [old_inconsistent |-> FALSE, old_dupe |-> TRUE, old |-> o]
    ELSE [old_inconsistent |-> FALSE, old_dupe |-> FALSE,
          old |-> QRAdd(o, old_ds)]

\* add calls self.old.remove(old_ds) when _add_new raised InconsistentData
RemoveOnInconsistent(a) == ~a.old_inconsistent

\* add calls self.old.remove(old_ds) when _add_new found a duplicate
RemoveOnDuplicate(a) == ~a.old_dupe

\* Variant: a duplicate old_ds is not stashed
StashDuplicate_Never(a) == a.old_inconsistent /\ a.old_dupe

\* Variant: every old_ds whose new_ds went into new is stashed as duplicate
StashDuplicate_Always(a) == a.old_inconsistent \/ ~a.old_inconsistent

\* add stashes old_ds in fixed_duplicates once new_ds went into new
StashDuplicate(a) == ~a.old_inconsistent /\ a.old_dupe

\* FilterTransform.add(old_ds, new_ds) on the engine state st; mode is what
\* the collection does when asked to remove a data set it does not hold
FTAdd(st, old_ds, new_ds, mode) ==
    LET a == AddOld(st.old, old_ds)
        base == [exc |-> NoVal, old |-> a.old, new |-> st.new,
                 n2o |-> st.n2o, fixedInc |-> st.fixedInc,
                 fixedDup |-> st.fixedDup, removed |-> FALSE,
                 old_inconsistent |-> a.old_inconsistent,
                 old_dupe |-> a.old_dupe, new_uid |-> NoUid]
    IN  IF new_ds = NoDs THEN base
        ELSE LET r == AddNew(st.new, st.n2o, st.level, old_ds, new_ds)
                 rm == [base EXCEPT
                          !.old = QRRemove(a.old, old_ds, mode),
                          !.removed = TRUE]
             IN  IF r.exc = "InconsistentData"
                 THEN IF RemoveOnInconsistent(a)
                      THEN [rm EXCEPT !.exc =
                              IF QRRemoveRaises(a.old, old_ds, mode)
                              THEN "KeyError" ELSE "InconsistentData"]
                      ELSE [base EXCEPT !.exc = "InconsistentData"]
                 ELSE IF r.new_uid = NoUid
                 THEN IF RemoveOnDuplicate(a)
                      THEN IF QRRemoveRaises(a.old, old_ds, mode)
                           THEN [base EXCEPT !.exc = "KeyError",
                                             !.removed = TRUE]
                           ELSE [rm EXCEPT !.exc = "DuplicateData"]
                      ELSE [base EXCEPT !.exc = "DuplicateData"]
                 ELSE [base EXCEPT
                         !.new = r.new,
                         !.n2o = r.n2o,
                         !.new_uid = r.new_uid,
                         !.fixedInc = IF a.old_inconsistent
                                      THEN [@ EXCEPT ![r.new_uid] = old_ds]
                                      ELSE @,
                         !.fixedDup = IF StashDuplicate(a)
                                      THEN [@ EXCEPT ![r.new_uid] = old_ds]
                                      ELSE @]

\* Variant: the level comparison of reverse the other way round
LevelMismatch_Flipped(rl, L, fi) == rl # L /\ (rl < L \/ ~LBool(fi))

\* reverse raises QueryLevelMismatchError for a request at level rl
LevelMismatch(rl, L, fi) == rl # L /\ (rl > L \/ ~LBool(fi))

\* Variant: reverse does not look into fixed_inconsistent
RECURSIVE ReverseLoop_NoInconsistent(_, _, _, _, _)
ReverseLoop_NoInconsistent(st, dss, i, rl, acc) ==
    IF i > Len(dss) \/ acc.exc # NoVal THEN acc
    ELSE LET new_uid == get_uid(rl, dss[i])
             old_uid == st.n2o[rl][new_uid]
         IN  IF old_uid = NoUid
             THEN [acc EXCEPT !.exc = "KeyError"]
             ELSE IF rl = st.level /\ st.fixedDup[new_uid] # NoDs
             THEN ReverseLoop_NoInconsistent(st, dss, i + 1, rl,
                    [acc EXCEPT !.duplicate =
                                   Append(@, st.fixedDup[new_uid])])
             ELSE ReverseLoop_NoInconsistent(st, dss, i + 1, rl,
                    [acc EXCEPT !.qr = @ \cup sub_query(st.old, rl, old_uid)])

\* The loop of FilterTransform.reverse over the data sets of new_qr
RECURSIVE ReverseLoop(_, _, _, _, _)
ReverseLoop(st, dss, i, rl, acc) ==
    IF i > Len(dss) \/ acc.exc # NoVal THEN acc
    ELSE LET new_uid == get_uid(rl, dss[i])
             old_uid == st.n2o[rl][new_uid]
         IN  IF old_uid = NoUid
             THEN [acc EXCEPT !.exc = "KeyError"]
             ELSE IF rl = st.level /\ st.fixedDup[new_uid] # NoDs
             THEN ReverseLoop(st, dss, i + 1, rl,
                    [acc EXCEPT !.duplicate =
                                   Append(@, st.fixedDup[new_uid])])
             ELSE IF rl = st.level /\ st.fixedInc[new_uid] # NoDs
             THEN ReverseLoop(st, dss, i + 1, rl,
                    [acc EXCEPT !.inconsistent =
                                   Append(@, st.fixedInc[new_uid])])
             ELSE ReverseLoop(st, dss, i + 1, rl,
                    [acc EXCEPT !.qr = @ \cup sub_query(st.old, rl, old_uid)])

\* FilterTransform.reverse(new_qr), new_qr.level being rl: the
\* DataCollection returned, or the exception raised
FTReverse(st, new_qr, rl) ==
    IF LevelMismatch(rl, st.level, st.fullyInv)
    THEN [exc |-> "QueryLevelMismatch", qr |-> {}, inconsistent |-> <<>>,
          duplicate |-> <<>>]
    ELSE ReverseLoop(st, Iterate(new_qr), 1, rl,
           [exc |-> NoVal, qr |-> {}, inconsistent |-> <<>>,
            duplicate |-> <<>>])

(***************************************************************************)
(* DummyTransform                                                          *)
(***************************************************************************)
\* Variant: add does not look whether the data set is already there
DummyAdd_NoCheck(o, old_ds) ==
    IF QRInconsistent(o, old_ds)
    THEN [exc |-> "InconsistentData", old |-> o]
    ELSE [exc |-> NoVal, old |-> QRAdd(o, old_ds)]

\* DummyTransform.add(old_ds, new_ds) with old_ds is new_ds
DummyAdd(o, old_ds) ==
    IF QRInconsistent(o, old_ds)
    THEN [exc |-> "InconsistentData", old |-> o]
    ELSE IF QRContains(o, old_ds)
    THEN [exc |-> "DuplicateData", old |-> o]
    ELSE [exc |-> NoVal, old |-> QRAdd(o, old_ds)]

\* Variant: reverse hands back the whole collection
DummyReverse_Whole(new_qr) ==
    [exc |-> NoVal, qr |-> old, inconsistent |-> <<>>, duplicate |-> <<>>]

\* DummyTransform.reverse(new_qr)
DummyReverse(new_qr) ==
    [exc |-> NoVal, qr |-> new_qr, inconsistent |-> <<>>, duplicate |-> <<>>]

(***************************************************************************)
(* Report / MultiListReport (dcm/report.py)                                *)
(*                                                                         *)
(* A report is a record: done, n_input, hook (a progress hook is set),     *)
(* task (self._task is not None), ends (calls of prog_hook.end made for    *)
(* it).  The MultiListReport has n_expected and subs, its sub-reports, as  *)
(* well; a sub-report carries the id it was appended under.                *)
(***************************************************************************)
\* n_expected is None
NoCount == [known |-> FALSE, n |-> 0]

Count(k) == [known |-> TRUE, n |-> k]

\* Report.set_prog_hook(prog_hook) on a report with or without description
SetProgHook(r, prog_hook, descr) ==
    IF r.hook \/ ~prog_hook THEN r
    ELSE [r EXCEPT !.hook = TRUE, !.task = descr]

\* Report.count_input()
CountInput(r) ==
    [r EXCEPT !.n_input = @ + 1, !.task = @ \/ r.hook]

\* Variant: a report that is done can be marked done again
SetDone_Again(r, val) ==
    IF ~val THEN [exc |-> "ValueError", r |-> r]
    ELSE [exc |-> NoVal,
          r   |-> [r EXCEPT !.done = TRUE,
                            !.ends = IF r.hook /\ r.task THEN @ + 1 ELSE @]]

\* Report._set_done(val), which both done setters go through
SetDone(r, val) ==
    IF ~val THEN [exc |-> "ValueError", r |-> r]
    ELSE IF r.done THEN [exc |-> "ValueError", r |-> r]
    ELSE [exc |-> NoVal,
          r   |-> [r EXCEPT !.done = TRUE,
                            !.ends = IF r.hook /\ r.task THEN @ + 1 ELSE @]]

\* Report.__init__ of a sub-report, given no hook, that will get id
NewSubReport(id) ==
    [id |-> id, done |-> FALSE, n_input |-> 0, hook |-> FALSE,
     task |-> FALSE, ends |-> 0]

\* MultiListReport.__init__(description, None, prog_hook, n_expected)
NewMultiListReport(descr, prog_hook, n_expected) ==
    [done |-> FALSE, n_input |-> 0, n_expected |-> n_expected,
     hook |-> prog_hook, task |-> prog_hook /\ descr, ends |-> 0,
     subs |-> <<>>, appended |-> 0]

\* MultiListReport.append(val); appended counts the calls and names val
MultiListAppend(m, descr) ==
    LET val == SetProgHook(NewSubReport(m.appended + 1), m.hook, descr)
    IN  CountInput([m EXCEPT !.subs = Append(@, val),
                             !.appended = @ + 1])

\* clear() of a sub-report, a MultiListReport without sub-reports
SubClear(s) == [s EXCEPT !.n_input = 0]

\* Variant: clear leaves n_expected alone
MultiListClear_KeepExpected(m) ==
    LET incomplete == SelectSeq(m.subs, LAMBDA s : ~s.done)
    IN  [m EXCEPT !.subs = [i \in DOMAIN incomplete |->
                               SubClear(incomplete[i])],
                  !.n_input = Len(incomplete)]

\* MultiListReport.clear()
MultiListClear(m) ==
    LET incomplete == SelectSeq(m.subs, LAMBDA s : ~s.done)
    IN  [m EXCEPT !.subs = [i \in DOMAIN incomplete |->
                               SubClear(incomplete[i])],
                  !.n_input = Len(incomplete),
                  !.n_expected =
                      IF @.known
                      THEN Count(@.n - (Len(m.subs) - Len(incomplete)))
                      ELSE @]

\* Sub-reports appended to one MultiListReport
MaxSubs == 2

\* count_input calls made on one sub-report
MaxCount == 1

(***************************************************************************)
(* _dir_crawl_worker and LocalDir.gen_chunks (dcm/store/local_dir.py)      *)
(*                                                                         *)
(* crawl is the worker: the number of paths iglob yields, max_chunk, the   *)
(* shutdown event ("None" when no event was passed, else "clear" or       *)
(* "set"), pidx, the length of curr_files, the number of chunks put, the   *)
(* number of paths examined since the event was set, and where the worker  *)
(* is: in the for loop, past its last put, or returned.  A chunk is the    *)
(* number it was put under and the number of files in it.                  *)
(***************************************************************************)
\* The modulus in the polling condition
PollEvery == 50

\* "pidx + 1 % 50 == 0": % binds tighter than + in Python
PollDue(pidx) == pidx + (1 % PollEvery) = 0

\* One pass of the for loop over a path that is or is not a file:
\* the worker after it and the chunks put by it
CrawlPath(w, isfile) ==
    IF PollDue(w.pidx) /\ w.shutdown = "set"
    THEN [w |-> [w EXCEPT !.pc = "done"], put |-> <<>>]
    ELSE LET seen == [w EXCEPT !.pidx = @ + 1,
                               !.after = IF w.shutdown = "set"
                                         THEN @ + 1 ELSE @]
         IN  IF ~isfile THEN [w |-> seen, put |-> <<>>]
             ELSE IF w.curr + 1 = w.max_chunk
             THEN [w   |-> [seen EXCEPT !.curr = 0, !.nput = @ + 1],
                   put |-> <<[seq |-> w.nput + 1, size |-> w.max_chunk]>>]
             ELSE [w |-> [seen EXCEPT !.curr = @ + 1], put |-> <<>>]

\* After the loop: the files left over are put as a last chunk
CrawlRest(w) ==
    IF w.curr # 0
    THEN [w   |-> [w EXCEPT !.curr = 0, !.nput = @ + 1, !.pc = "flushed"],
          put |-> <<[seq |-> w.nput + 1, size |-> w.curr]>>]
    ELSE [w |-> [w EXCEPT !.pc = "flushed"], put |-> <<>>]

\* Paths that iglob yields
MaxPaths == 52

\* Largest max_chunk given
MaxChunk == 2

(***************************************************************************)
(* _disk_write_worker and LocalDir.send (dcm/store/local_dir.py)           *)
(*                                                                         *)
(* send is the caller and the worker together: where the caller is (in the *)
(* body of the context, about to put the sentinel, awaiting send_fut, out  *)
(* of the context or left by the worker's exception), send_q, everything   *)
(* put on it and everything the worker took off it, whether the worker     *)
(* runs, has left its loop or was ended by an exception, and               *)
(* force_overwrite.  wreport is the LocalWriteReport, a Report without     *)
(* progress hook, with the number of add_skipped, add_error and            *)
(* add_success calls made on it.  The worker is given no shutdown event,   *)
(* so its polling never ends it.                                           *)
(***************************************************************************)
\* maxsize of send_q
QueueSize == 10

\* put(None)
EndOfStream == [none |-> TRUE]

\* the n-th data set the caller puts
DataSet(n) == [none |-> FALSE, n |-> n]

\* make_out_path(out_fmt, ds) returns a path unless formatting an
\* attribute of ds raises, as {d.SeriesNumber:03d} of the default format
\* does for a data set without SeriesNumber (its value is then 'unknown')
MakeOutPath(formats) == IF formats THEN "path" ELSE "ValueError"

\* Variant: the path is made inside the try, a failure is an add_error
DiskWrite_Guarded(force_overwrite, rep, formats, exists, saves) ==
    IF MakeOutPath(formats) = "ValueError" \/ ~saves
    THEN [exc |-> NoVal, rep |-> [rep EXCEPT !.errors = @ + 1]]
    ELSE IF exists /\ ~force_overwrite
    THEN [exc |-> NoVal, rep |-> [rep EXCEPT !.skipped = @ + 1]]
    ELSE [exc |-> NoVal, rep |-> [rep EXCEPT !.success = @ + 1]]

\* The loop body of _disk_write_worker past the get, for a data set whose
\* path can be formatted or not, whose target exists or not, and whose
\* makedirs and save_as go through or raise
DiskWrite(force_overwrite, rep, formats, exists, saves) ==
    IF MakeOutPath(formats) = "ValueError"
    THEN [exc |-> "ValueError", rep |-> rep]
    ELSE IF exists /\ ~force_overwrite
    THEN [exc |-> NoVal, rep |-> [rep EXCEPT !.skipped = @ + 1]]
    ELSE IF ~saves
    THEN [exc |-> NoVal, rep |-> [rep EXCEPT !.errors = @ + 1]]
    ELSE [exc |-> NoVal, rep |-> [rep EXCEPT !.success = @ + 1]]

\* Data sets the caller puts
MaxPuts == 11

(***************************************************************************)
(* Inputs of the Filter and MultiFilter constructors                       *)
(***************************************************************************)
\* Attribute names the declared sets are built from
DeclNames == {uid_elems[4], OtherElem}

\* Filter(func, read_elems=.., write_elems=.., invertible_elems=..)
FilterDecls ==
    [read_elems : {AllElems}, write_elems : LazySet(DeclNames),
     invertible_elems : LazySet(DeclNames)]

\* Longest chain given to MultiFilter
MaxChain == 3

\* Declarations of the filters put in a chain
ChainDecls ==
    [read_elems : {EmptySet, Explicit({uid_elems[4]}), Explicit({OtherElem})},
     write_elems : {EmptySet, Explicit({uid_elems[4]}), Explicit({OtherElem}),
                    AllElems},
     invertible_elems : {EmptySet, Explicit({uid_elems[4]})}]

\* Declarations of the filters of a chain asked for its dependencies:
\* invertible_elems is left at its default
DepDecls ==
    [read_elems : {EmptySet, Explicit({uid_elems[4]}), Explicit({OtherElem})},
     write_elems : {EmptySet, Explicit({uid_elems[4]}), Explicit({OtherElem}),
                    AllElems},
     invertible_elems : {EmptySet}]

\* The sets of attributes a caller asks get_dependencies about
RequestedSets ==
    {EmptySet, Explicit({uid_elems[4]}), Explicit({OtherElem}), AllElems}

NotMade == [made |-> FALSE]

(***************************************************************************)
(* State machine                                                           *)
(***************************************************************************)
IdleFilter == fdecl = NotMade /\ filt = NotMade

IdleChain ==
    /\ filters = <<>>
    /\ mfilt = NotMade
    /\ deps = NotMade
    /\ applied = NotMade

IdleReport == report = NotMade /\ rlast = [op |-> "none"]

IdleCrawl == crawl = NotMade /\ resq = <<>> /\ gen = NotMade

IdleSend == send = NotMade /\ wreport = NotMade

IdleIO == IdleReport /\ IdleCrawl /\ IdleSend

IdleEngine ==
    /\ pc = "idle"
    /\ srcFilt = NoFilter
    /\ level = 1
    /\ old = {}
    /\ new = {}
    /\ n2o = EmptyMap
    /\ fixedInc = EmptyLedger
    /\ fixedDup = EmptyLedger
    /\ fullyInv = EmptySet
    /\ pairs = {}
    /\ nAdds = 0
    /\ last = [op |-> "none"]

\* QueryResult levels the engines are built at: STUDY and IMAGE
EngineLevels == {2, 4}

\* The engine as FTAdd / FTReverse see it
Engine ==
    [old |-> old, new |-> new, n2o |-> n2o, fixedInc |-> fixedInc,
     fixedDup |-> fixedDup, level |-> level, fullyInv |-> fullyInv]

\* ---- Filter ----
InitFilter ==
    /\ fdecl \in FilterDecls
    /\ filt = NotMade
    /\ IdleChain
    /\ IdleIO
    /\ IdleEngine

\* Filter(...): the dataclass constructor runs __post_init__
MakeFilter ==
    /\ filt = NotMade
    /\ fdecl # NotMade
    /\ filt' = [made |-> TRUE, f |-> FilterPostInit(fdecl)]
    /\ UNCHANGED <<fdecl, chainVars, engineVars, ioVars>>

\* The caller builds another Filter
NextDecl ==
    /\ filt # NotMade
    /\ \E d \in FilterDecls : fdecl' = d
    /\ filt' = NotMade
    /\ UNCHANGED <<chainVars, engineVars, ioVars>>

NextFilter == MakeFilter \/ NextDecl

SpecFilter == InitFilter /\ [][NextFilter]_vars

\* ---- MultiFilter ----
InitChain ==
    /\ IdleFilter
    /\ IdleChain
    /\ IdleIO
    /\ IdleEngine

\* One more Filter is constructed for the chain
AppendFilter ==
    /\ Len(filters) < MaxChain
    /\ \E d \in ChainDecls : filters' = Append(filters, FilterPostInit(d))
    /\ mfilt' = NotMade
    /\ UNCHANGED <<deps, applied, filterVars, engineVars, ioVars>>

\* MultiFilter(filters): the dataclass constructor runs __post_init__
MakeMulti ==
    /\ mfilt = NotMade
    /\ mfilt' = [made |-> TRUE, f |-> MultiFilterPostInit(filters)]
    /\ UNCHANGED <<filters, deps, applied, filterVars, engineVars, ioVars>>

NextChain == AppendFilter \/ MakeMulti

SpecChain == InitChain /\ [][NextChain]_vars

\* ---- MultiFilter.get_dependencies ----
InitDeps ==
    /\ IdleFilter
    /\ IdleChain
    /\ IdleIO
    /\ IdleEngine

\* One more Filter is constructed for the chain that will be queried
AppendDepFilter ==
    /\ Len(filters) < MaxChain
    /\ \E d \in DepDecls : filters' = Append(filters, FilterPostInit(d))
    /\ mfilt' = NotMade
    /\ deps' = NotMade
    /\ UNCHANGED <<applied, filterVars, engineVars, ioVars>>

\* multi_filter.get_dependencies(elems)
GetDependencies ==
    /\ mfilt # NotMade
    /\ \E elems \in RequestedSets :
         LET r == get_dependencies(filters, elems)
         IN  deps' = [made |-> TRUE, elems |-> elems, funcs |-> r.funcs,
                      dep_elems |-> r.dep_elems]
    /\ UNCHANGED <<filters, mfilt, applied, filterVars, engineVars, ioVars>>

NextDeps == AppendDepFilter \/ MakeMulti \/ GetDependencies

SpecDeps == InitDeps /\ [][NextDeps]_vars

\* ---- MultiFilter.__call__ ----
InitApply ==
    /\ IdleFilter
    /\ IdleChain
    /\ IdleIO
    /\ IdleEngine

\* One more Filter(func) is constructed for the chain that will be called
AppendApplyFilter ==
    /\ Len(filters) < MaxChain
    /\ \E f \in ApplyFilters : filters' = Append(filters, f)
    /\ applied' = NotMade
    /\ UNCHANGED <<mfilt, deps, filterVars, engineVars, ioVars>>

\* MultiFilter(filters)(data_set)
CallMulti ==
    /\ \E L \in EngineLevels : \E ds \in DataSets(L) :
         LET r == MultiFilterCall(filters, ds)
         IN  applied' = [made |-> TRUE, ds |-> ds, out |-> r.out,
                         calls |-> r.calls]
    /\ UNCHANGED <<filters, mfilt, deps, filterVars, engineVars, ioVars>>

NextApply == AppendApplyFilter \/ CallMulti

SpecApply == InitApply /\ [][NextApply]_vars

\* ---- Report, MultiListReport ----
InitReport ==
    /\ IdleFilter
    /\ IdleChain
    /\ IdleEngine
    /\ IdleCrawl
    /\ IdleSend
    /\ \E descr \in BOOLEAN, prog_hook \in BOOLEAN :
       \E n_expected \in {NoCount} \cup {Count(k) : k \in 0..MaxSubs} :
           report = NewMultiListReport(descr, prog_hook, n_expected)
    /\ rlast = [op |-> "none"]

\* report.append(Report(description))
AppendSub ==
    /\ report.appended < MaxSubs
    /\ \E descr \in BOOLEAN : report' = MultiListAppend(report, descr)
    /\ rlast' = [op |-> "append", target |-> report.appended + 1]
    /\ UNCHANGED <<filterVars, chainVars, engineVars, crawlVars, sendVars>>

\* report[i].count_input()
SubCountInput ==
    /\ \E i \in DOMAIN report.subs :
         /\ report.subs[i].n_input < MaxCount
         /\ report' = [report EXCEPT !.subs[i] = CountInput(@)]
         /\ rlast' = [op |-> "count_input", target |-> report.subs[i].id]
    /\ UNCHANGED <<filterVars, chainVars, engineVars, crawlVars, sendVars>>

\* report.done = val
SetReportDone ==
    /\ \E val \in BOOLEAN :
         LET r == SetDone(report, val)
         IN  /\ report' = r.r
             /\ rlast' = [op |-> "set_done", target |-> 0, val |-> val,
                          exc |-> r.exc]
    /\ UNCHANGED <<filterVars, chainVars, engineVars, crawlVars, sendVars>>

\* report[i].done = val
SetSubDone ==
    /\ \E i \in DOMAIN report.subs : \E val \in BOOLEAN :
         LET r == SetDone(report.subs[i], val)
         IN  /\ report' = [report EXCEPT !.subs[i] = r.r]
             /\ rlast' = [op |-> "set_done", target |-> report.subs[i].id,
                          val |-> val, exc |-> r.exc]
    /\ UNCHANGED <<filterVars, chainVars, engineVars, crawlVars, sendVars>>

\* report.clear()
ClearReport ==
    /\ report' = MultiListClear(report)
    /\ rlast' = [op |-> "clear", target |-> 0]
    /\ UNCHANGED <<filterVars, chainVars, engineVars, crawlVars, sendVars>>

NextReport ==
    \/ AppendSub
    \/ SubCountInput
    \/ SetReportDone
    \/ SetSubDone
    \/ ClearReport

SpecReport == InitReport /\ [][NextReport]_vars

\* ---- _dir_crawl_worker, gen_chunks ----
\* Either gen_chunks starts the worker, without a shutdown event, and
\* consumes res_q, or the worker runs under a shutdown event
InitCrawl ==
    /\ IdleFilter
    /\ IdleChain
    /\ IdleEngine
    /\ IdleReport
    /\ IdleSend
    /\ resq = <<>>
    /\ \E max_chunk \in 1..MaxChunk, by_gen \in BOOLEAN :
         /\ crawl = [n_paths |-> MaxPaths, max_chunk |-> max_chunk,
                     shutdown |-> IF by_gen THEN "None" ELSE "clear",
                     pidx |-> 0, curr |-> 0, nput |-> 0, after |-> 0,
                     pc |-> "loop"]
         /\ gen = IF by_gen THEN [pc |-> "wait", yielded |-> <<>>]
                  ELSE NotMade

\* shutdown.set()
SetShutdown ==
    /\ crawl.shutdown = "clear"
    /\ crawl' = [crawl EXCEPT !.shutdown = "set"]
    /\ UNCHANGED <<filterVars, chainVars, engineVars, reportVars, sendVars,
                   resq, gen>>

\* the for loop's body, once
CrawlLoop ==
    /\ crawl.pc = "loop"
    /\ crawl.pidx < crawl.n_paths
    /\ \E isfile \in BOOLEAN :
         LET r == CrawlPath(crawl, isfile)
         IN  /\ crawl' = r.w
             /\ resq' = resq \o r.put
    /\ UNCHANGED <<filterVars, chainVars, engineVars, reportVars, sendVars,
                   gen>>

\* the for loop is exhausted: the last put
CrawlFlush ==
    /\ crawl.pc = "loop"
    /\ crawl.pidx = crawl.n_paths
    /\ LET r == CrawlRest(crawl)
       IN  /\ crawl' = r.w
           /\ resq' = resq \o r.put
    /\ UNCHANGED <<filterVars, chainVars, engineVars, reportVars, sendVars,
                   gen>>

\* the worker returns and its thread ends
CrawlReturn ==
    /\ crawl.pc = "flushed"
    /\ crawl' = [crawl EXCEPT !.pc = "done"]
    /\ UNCHANGED <<filterVars, chainVars, engineVars, reportVars, sendVars,
                   resq, gen>>

\* res_q.async_q.get() returns a chunk, which is yielded
GenYield ==
    /\ gen # NotMade
    /\ gen.pc = "wait"
    /\ resq # <<>>
    /\ gen' = [gen EXCEPT !.yielded = Append(@, Head(resq))]
    /\ resq' = Tail(resq)
    /\ UNCHANGED <<filterVars, chainVars, engineVars, reportVars, sendVars,
                   crawl>>

\* the get times out on an empty queue
GenTimeout ==
    /\ gen # NotMade
    /\ gen.pc = "wait"
    /\ resq = <<>>
    /\ gen' = [gen EXCEPT !.pc = "timeout"]
    /\ UNCHANGED <<filterVars, chainVars, engineVars, reportVars, sendVars,
                   crawl, resq>>

\* except asyncio.TimeoutError: break if crawl_fut.done(), then await it
GenCheckDone ==
    /\ gen # NotMade
    /\ gen.pc = "timeout"
    /\ gen' = [gen EXCEPT !.pc = IF crawl.pc = "done" THEN "finished"
                                 ELSE "wait"]
    /\ UNCHANGED <<filterVars, chainVars, engineVars, reportVars, sendVars,
                   crawl, resq>>

NextCrawl ==
    \/ SetShutdown
    \/ CrawlLoop
    \/ CrawlFlush
    \/ CrawlReturn
    \/ GenYield
    \/ GenTimeout
    \/ GenCheckDone

SpecCrawl == InitCrawl /\ [][NextCrawl]_vars

\* ---- LocalDir.send, _disk_write_worker ----
InitSend ==
    /\ IdleFilter
    /\ IdleChain
    /\ IdleEngine
    /\ IdleReport
    /\ IdleCrawl
    /\ \E force_overwrite \in BOOLEAN :
         send = [pc |-> "body", q |-> <<>>, puts |-> <<>>, took |-> <<>>,
                 worker |-> "run", force_overwrite |-> force_overwrite]
    /\ wreport = [done |-> FALSE, hook |-> FALSE, task |-> FALSE,
                  ends |-> 0, skipped |-> 0, errors |-> 0, success |-> 0]

\* in the body: await send_q.put(ds), which waits while the queue is full
SendPut ==
    /\ send.pc = "body"
    /\ Len(SelectSeq(send.puts, LAMBDA x : ~x.none)) < MaxPuts
    /\ Len(send.q) < QueueSize
    /\ LET ds == DataSet(Len(send.puts) + 1)
       IN  send' = [send EXCEPT !.q = Append(@, ds),
                                !.puts = Append(@, ds)]
    /\ UNCHANGED <<filterVars, chainVars, engineVars, reportVars, crawlVars,
                   wreport>>

\* the body ends: finally, if not send_fut.done()
SendLeave ==
    /\ send.pc = "body"
    /\ send' = [send EXCEPT !.pc = IF send.worker = "run" THEN "put_none"
                                   ELSE "await"]
    /\ UNCHANGED <<filterVars, chainVars, engineVars, reportVars, crawlVars,
                   wreport>>

\* await send_q.async_q.put(None)
SendPutNone ==
    /\ send.pc = "put_none"
    /\ Len(send.q) < QueueSize
    /\ send' = [send EXCEPT !.q = Append(@, EndOfStream),
                            !.puts = Append(@, EndOfStream),
                            !.pc = "await"]
    /\ UNCHANGED <<filterVars, chainVars, engineVars, reportVars, crawlVars,
                   wreport>>

\* Variant: report.done is set without waiting for the worker
SendAwait_NoWait ==
    /\ send.pc = "await"
    /\ send' = [send EXCEPT !.pc = "closed"]
    /\ wreport' = SetDone(wreport, TRUE).r
    /\ UNCHANGED <<filterVars, chainVars, engineVars, reportVars, crawlVars>>

\* await send_fut, which raises what ended the worker; report.done = True
SendAwait ==
    /\ send.pc = "await"
    /\ send.worker # "run"
    /\ IF send.worker = "died"
       THEN /\ send' = [send EXCEPT !.pc = "raised"]
            /\ UNCHANGED wreport
       ELSE /\ send' = [send EXCEPT !.pc = "closed"]
            /\ wreport' = SetDone(wreport, TRUE).r
    /\ UNCHANGED <<filterVars, chainVars, engineVars, reportVars, crawlVars>>

\* one pass of the worker's loop that gets an item
WriterTake ==
    /\ send.worker = "run"
    /\ send.q # <<>>
    /\ LET item == Head(send.q)
           got  == [send EXCEPT !.q = Tail(@), !.took = Append(@, item)]
       IN  IF item.none
           THEN /\ send' = [got EXCEPT !.worker = "exited"]
                /\ UNCHANGED wreport
           ELSE \E formats \in BOOLEAN, exists \in BOOLEAN,
                   saves \in BOOLEAN :
                    LET r == DiskWrite(send.force_overwrite, wreport,
                                       formats, exists, saves)
                    IN  /\ wreport' = r.rep
                        /\ send' = IF r.exc = NoVal THEN got
                                   ELSE [got EXCEPT !.worker = "died"]
    /\ UNCHANGED <<filterVars, chainVars, engineVars, reportVars, crawlVars>>

NextSend ==
    \/ SendPut
    \/ SendLeave
    \/ SendPutNone
    \/ SendAwait
    \/ WriterTake

SpecSend == InitSend /\ [][NextSend]_vars

\* ---- get_transform, add, reverse ----
Init ==
    /\ IdleFilter
    /\ IdleChain
    /\ IdleIO
    /\ pc = "start"
    /\ srcFilt \in EngineFilters \cup EditFilters \cup {NoFilter}
    /\ level \in EngineLevels
    /\ old \in QueryResults(level)
    /\ new = {}
    /\ n2o = EmptyMap
    /\ fixedInc = EmptyLedger
    /\ fixedDup = EmptyLedger
    /\ fullyInv = EmptySet
    /\ pairs = {}
    /\ nAdds = 0
    /\ last = [op |-> "none"]

\* get_transform(qr, None): DummyTransform(qr)
MakeDummy ==
    /\ pc = "start"
    /\ srcFilt = NoFilter
    /\ pc' = "dummy"
    /\ new' = old
    /\ pairs' = {<<ds, ds>> : ds \in old}
    /\ last' = [op |-> "init", func |-> NoVal, src |-> old, exc |-> NoVal]
    /\ UNCHANGED <<srcFilt, level, old, n2o, fixedInc, fixedDup, fullyInv,
                   nAdds, filterVars, chainVars, ioVars>>

\* get_transform(qr, filt): FilterTransform(qr, filt)
MakeFilterTransform ==
    /\ pc = "start"
    /\ srcFilt # NoFilter
    /\ \E order \in Orders(old) :
         LET r == FilterTransformInit(order, srcFilt.func, level)
         IN  /\ pc' = IF r.exc = NoVal THEN "filter" ELSE "failed"
             /\ new' = r.new
             /\ n2o' = r.n2o
             /\ pairs' = r.pairs
             /\ last' = [op |-> "init", func |-> srcFilt.func,
                         decl |-> srcFilt.decl, src |-> old, exc |-> r.exc]
    /\ fullyInv' = invertible_uids(srcFilt.decl)
    /\ srcFilt' = NoFilter
    /\ UNCHANGED <<level, old, fixedInc, fixedDup, nAdds, filterVars,
                   chainVars, ioVars>>

\* DummyTransform.add(ds, ds); old and new are one collection
DummyAddStep ==
    /\ pc = "dummy"
    /\ nAdds < MaxAdds
    /\ \E ds \in DataSets(level) :
         LET r == DummyAdd(old, ds)
         IN  /\ old' = r.old
             /\ new' = r.old
             /\ pairs' = IF r.exc = NoVal THEN pairs \cup {<<ds, ds>>}
                         ELSE pairs
             /\ last' = [op |-> "add", old_ds |-> ds, new_ds |-> ds,
                         exc |-> r.exc]
    /\ nAdds' = nAdds + 1
    /\ UNCHANGED <<pc, srcFilt, level, n2o, fixedInc, fixedDup, fullyInv,
                   filterVars, chainVars, ioVars>>

\* The QueryResults of level rl a caller can pass to reverse: non-empty
\* parts of new brought to level rl
Requests(rl) ==
    (SUBSET {[k \in 1..rl |-> IF k <= Len(r) THEN r[k] ELSE MidUid] :
                r \in new}) \ {{}}

\* DummyTransform.reverse(new_qr)
DummyReverseStep ==
    /\ pc = "dummy"
    /\ \E rl \in Levels : \E new_qr \in Requests(rl) :
         last' = [op |-> "reverse", rl |-> rl, new_qr |-> new_qr,
                  res |-> DummyReverse(new_qr)]
    /\ UNCHANGED <<pc, srcFilt, level, old, new, n2o, fixedInc, fixedDup,
                   fullyInv, pairs, nAdds, filterVars, chainVars, ioVars>>

\* FilterTransform.add(old_ds, new_ds)
AddStep ==
    /\ pc = "filter"
    /\ nAdds < MaxAdds
    /\ \E old_ds \in DataSets(level) :
       \E new_ds \in DataSets(level) \cup {NoDs} :
       \E mode \in RemoveChoices(old, old_ds) :
         LET r == FTAdd(Engine, old_ds, new_ds, mode)
         IN  /\ old' = r.old
             /\ new' = r.new
             /\ n2o' = r.n2o
             /\ fixedInc' = r.fixedInc
             /\ fixedDup' = r.fixedDup
             /\ pairs' = IF r.new_uid # NoUid
                         THEN pairs \cup {<<old_ds, new_ds>>} ELSE pairs
             /\ last' = [op |-> "add", old_ds |-> old_ds, new_ds |-> new_ds,
                         exc |-> r.exc,
                         old_inconsistent |-> r.old_inconsistent,
                         old_dupe |-> r.old_dupe,
                         new_inconsistent |-> new_ds # NoDs
                                              /\ QRInconsistent(new, new_ds),
                         new_dupe |-> new_ds # NoDs /\ new_ds \in new,
                         removed |-> r.removed]
    /\ nAdds' = nAdds + 1
    /\ UNCHANGED <<pc, srcFilt, level, fullyInv, filterVars, chainVars,
                   ioVars>>

\* Variant: reverse at the working level takes the reversed data sets out
\* of new
ReverseStep_Consuming ==
    /\ pc = "filter"
    /\ \E rl \in Levels : \E new_qr \in Requests(rl) :
         /\ last' = [op |-> "reverse", rl |-> rl, new_qr |-> new_qr,
                     res |-> FTReverse(Engine, new_qr, rl)]
         /\ new' = IF rl = level THEN new \ new_qr ELSE new
    /\ UNCHANGED <<pc, srcFilt, level, old, n2o, fixedInc, fixedDup,
                   fullyInv, pairs, nAdds, filterVars, chainVars, ioVars>>

\* FilterTransform.reverse(new_qr)
ReverseStep ==
    /\ pc = "filter"
    /\ \E rl \in Levels : \E new_qr \in Requests(rl) :
         last' = [op |-> "reverse", rl |-> rl, new_qr |-> new_qr,
                  res |-> FTReverse(Engine, new_qr, rl)]
    /\ UNCHANGED <<pc, srcFilt, level, old, new, n2o, fixedInc, fixedDup,
                   fullyInv, pairs, nAdds, filterVars, chainVars, ioVars>>

Next ==
    \/ MakeDummy
    \/ MakeFilterTransform
    \/ DummyAddStep
    \/ DummyReverseStep
    \/ AddStep
    \/ ReverseStep

Spec == Init /\ [][Next]_vars

(***************************************************************************)
(* Properties                                                              *)
(***************************************************************************)
Range(q) == {q[i] : i \in DOMAIN q}

\* The step is a call of FilterTransform.add
IsAdd == pc = "filter" /\ nAdds' = nAdds + 1

C2_InconsistentRollsBack ==
    [][(IsAdd /\ last'.new_inconsistent) =>
          /\ last'.exc = "InconsistentData"
          /\ old' = old
          /\ UNCHANGED <<new, n2o, fixedInc, fixedDup>>]_vars

\* reverse at the working level on the subset S of new returns the original
\* o of the record n of S: in the consistent collection or in a list
Recovers(S, o) ==
    LET b == FTReverse(Engine, S, level)
    IN  /\ b.exc = NoVal
        /\ \/ o \in b.qr
           \/ o \in Range(b.duplicate)
           \/ o \in Range(b.inconsistent)

\* C3: after construction and any sequence of add calls, failed or not,
\* every record of new is reversible at the working level: reverse on a
\* subset containing it yields the original it was committed with.
C3_CommittedStayReversible ==
    pc = "filter" =>
        \A pr \in pairs : \A S \in SUBSET new :
            pr[2] \in S => Recovers(S, pr[1])

\* C4: after add(R, R') succeeded with R a duplicate of old content and R'
\* new to new, R is stashed under the identifier of R', and reverse at the
\* working level on any subset containing R' returns R in the duplicate
\* list and puts nothing in the consistent collection on account of R'.
C4_FixedDuplicateSurfaced ==
    pc = "filter" =>
        /\ (last.op = "add" /\ last.exc = NoVal /\ last.old_dupe
                /\ last.new_ds # NoDs)
              => fixedDup[get_uid(level, last.new_ds)] = last.old_ds
        /\ \A n \in new :
             fixedDup[get_uid(level, n)] # NoDs =>
                \A S \in SUBSET new :
                    n \in S =>
                        LET b  == FTReverse(Engine, S, level)
                            b0 == FTReverse(Engine, S \ {n}, level)
                        IN  /\ b.exc = NoVal
                            /\ fixedDup[get_uid(level, n)]
                                  \in Range(b.duplicate)
                            /\ b.qr = b0.qr

C4_Witness ==
    /\ pc = "filter"
    /\ last.op = "reverse"
    /\ last.rl = level
    /\ last.res.exc = NoVal
    /\ Len(last.res.duplicate) > 0

\* Every identifier attribute is in fully_invertible
FullyInvertible == \A l \in Levels : LIn(uid_elems[l], fullyInv)

\* C5: reverse at a level coarser than the working level fails with
\* LevelMismatch exactly when some identifier attribute is written
\* non-invertibly, and succeeds when all of them are invertible.
C5_CoarserNeedsFullInvertibility ==
    (pc = "filter" /\ last.op = "reverse" /\ last.rl < level) =>
        /\ ~FullyInvertible <=> last.res.exc = "QueryLevelMismatch"
        /\ FullyInvertible => last.res.exc = NoVal

\* C6 as stated: reverse at a level finer than, or equal to, the working
\* level never fails with LevelMismatch.
C6_FinerOrEqualNeverMismatch ==
    (pc = "filter" /\ last.op = "reverse" /\ last.rl >= level) =>
        last.res.exc # "QueryLevelMismatch"

\* C6 amended: reverse at the working level never fails with LevelMismatch,
\* whatever the filter declares; reverse at a finer level always does.
C6_EqualNeverFinerAlways ==
    (pc = "filter" /\ last.op = "reverse") =>
        /\ last.rl = level => last.res.exc # "QueryLevelMismatch"
        /\ last.rl > level => last.res.exc = "QueryLevelMismatch"

C6_Witness ==
    /\ pc = "filter"
    /\ last.op = "reverse"
    /\ last.rl > level
    /\ last.new_qr # {}
    /\ FullyInvertible
    /\ last.res.exc = "QueryLevelMismatch"

\* C7: for the identity transform new is the same collection as old at all
\* times, and reverse(S) returns S as the consistent collection with empty
\* inconsistent and duplicate lists.
C7_IdentityRoundTrip ==
    pc = "dummy" =>
        /\ new = old
        /\ last.op = "reverse" =>
              /\ last.res.exc = NoVal
              /\ last.res.qr = last.new_qr
              /\ last.res.inconsistent = <<>>
              /\ last.res.duplicate = <<>>

C7_Witness ==
    /\ pc = "dummy"
    /\ nAdds > 0
    /\ last.op = "reverse"
    /\ last.new_qr # {}
    /\ last.new_qr # old

\* The filter of C8: the Instance identifier remapped, declared written and
\* invertible
RemapDecl ==
    FilterPostInit([read_elems |-> AllElems,
                    write_elems |-> Explicit({uid_elems[4]}),
                    invertible_elems |-> Explicit({uid_elems[4]})])

IsRemapEngine ==
    /\ last.op = "init"
    /\ level = 4
    /\ last.func = "remap_uid"
    /\ last.decl = RemapDecl

\* C8: over an Instance-level source, with a filter that remaps the Instance
\* identifier injectively and declares it written and invertible,
\* construction succeeds, reverse(new) returns the source records as the
\* consistent collection with empty lists, and fully_invertible holds the
\* Instance identifier attribute.
C8_InstanceRemapRoundTrip ==
    IsRemapEngine =>
        /\ pc = "filter"
        /\ Cardinality(new) = Cardinality(last.src)
        /\ FTReverse(Engine, new, level) =
              [exc |-> NoVal, qr |-> last.src, inconsistent |-> <<>>,
               duplicate |-> <<>>]
        /\ LIn(uid_elems[4], fullyInv)

C8_Witness ==
    /\ IsRemapEngine
    /\ pc = "filter"
    /\ Cardinality(last.src) = 2

\* a is a subset of b, name by name and for the names beyond ElemNames
LSubsetEq(a, b) ==
    /\ \A x \in ElemNames : LIn(x, a) => LIn(x, b)
    /\ a.all => b.all

\* C9: a constructed Filter has invertible_elems within write_elems; its
\* write_elems is the declared write set widened by the declared invertible
\* set, never narrowed.
C9_InvertibleWithinWrite ==
    filt.made =>
        /\ LSubsetEq(filt.f.invertible_elems, filt.f.write_elems)
        /\ LSubsetEq(fdecl.write_elems, filt.f.write_elems)
        /\ \A x \in ElemNames :
              LIn(x, filt.f.write_elems) <=>
                 (LIn(x, fdecl.write_elems) \/ LIn(x, fdecl.invertible_elems))
        /\ filt.f.write_elems.all <=>
              (fdecl.write_elems.all \/ fdecl.invertible_elems.all)
        /\ filt.f.invertible_elems = fdecl.invertible_elems

C9_Witness ==
    /\ filt.made
    /\ ~LSubsetEq(fdecl.invertible_elems, fdecl.write_elems)
    /\ filt.f.write_elems # fdecl.write_elems

\* Sub-filter i of the chain writes x without declaring it invertible
WritesNonInvertibly(i, x) ==
    LIn(x, filters[i].write_elems) /\ ~LIn(x, filters[i].invertible_elems)

\* C10: an attribute is in the chain's invertible_elems iff some sub-filter
\* declares it invertible and no sub-filter, earlier or later, writes it
\* non-invertibly.
C10_ChainInvertibleConservative ==
    mfilt.made =>
        \A x \in ElemNames :
            LIn(x, mfilt.f.invertible_elems) <=>
                /\ \E i \in DOMAIN filters :
                      LIn(x, filters[i].invertible_elems)
                /\ \A i \in DOMAIN filters : ~WritesNonInvertibly(i, x)

C10_Witness ==
    /\ mfilt.made
    /\ Len(filters) >= 2
    /\ LIn(uid_elems[4], filters[1].invertible_elems)
    /\ WritesNonInvertibly(2, uid_elems[4])
    /\ ~LIn(uid_elems[4], mfilt.f.invertible_elems)


\* The names sets are probed with: ElemNames and one name beyond them
ProbeNames == ElemNames \cup {"AnyOtherAttribute"}

\* a and b share an attribute
Meets(a, b) == \E x \in ProbeNames : LIn(x, a) /\ LIn(x, b)

\* Positions of the filters get_dependencies selected
Selected == Range(deps.funcs)

\* C11 as stated: in a 3-filter chain where filter 2's write set is disjoint
\* from filter 1's write set and from the requested set, get_dependencies
\* leaves filter 2 out, and filter 1 too when its writes are disjoint from
\* the requested set.
C11_WriteDisjointExcluded ==
    (deps.made /\ Len(filters) = 3
        /\ ~Meets(filters[2].write_elems, filters[1].write_elems)
        /\ ~Meets(filters[2].write_elems, deps.elems)) =>
        /\ 2 \notin Selected
        /\ ~Meets(filters[1].write_elems, deps.elems) => 1 \notin Selected

\* C11 amended: in a 3-filter chain where filter 2's write set is disjoint
\* from filter 1's read set and from the requested set, get_dependencies
\* leaves filter 2 out; filter 1 is left out exactly when its writes are
\* disjoint from the requested set.
C11_ReadDisjointExcluded ==
    (deps.made /\ Len(filters) = 3
        /\ ~Meets(filters[2].write_elems, filters[1].read_elems)
        /\ ~Meets(filters[2].write_elems, deps.elems)) =>
        /\ 2 \notin Selected
        /\ ~Meets(filters[1].write_elems, deps.elems) <=> 1 \notin Selected

C11_Witness ==
    /\ deps.made
    /\ Len(filters) = 3
    /\ ~Meets(filters[2].write_elems, filters[1].read_elems)
    /\ ~Meets(filters[2].write_elems, deps.elems)
    /\ Meets(filters[2].write_elems, filters[1].write_elems)
    /\ Selected = {1, 3}

\* C12: get_dependencies selects a filter exactly when the caller requested
\* an attribute it writes or a later filter of the chain that is itself
\* selected reads an attribute it writes.
C12_NeededByLaterSelected ==
    deps.made =>
        \A i \in DOMAIN filters :
            i \in Selected <=>
                \/ Meets(deps.elems, filters[i].write_elems)
                \/ \E j \in DOMAIN filters :
                      /\ j > i
                      /\ j \in Selected
                      /\ Meets(filters[j].read_elems, filters[i].write_elems)


\* Some selected filter before position i reads an attribute filter i writes
EarlierSelectedReads(i) ==
    \E j \in Selected :
        j < i /\ Meets(filters[j].read_elems, filters[i].write_elems)

\* C19: get_dependencies is the single forward pass: a filter is selected
\* iff the reads accumulated from the filters selected before it, or the
\* requested set, share an attribute with its write set; the functions come
\* back in chain order, each at most once; the read set returned is the
\* union of the read sets of the selected filters, empty when none is.
C19_ForwardPass ==
    deps.made =>
        /\ \A i \in DOMAIN filters :
              i \in Selected <=>
                  \/ EarlierSelectedReads(i)
                  \/ Meets(deps.elems, filters[i].write_elems)
        /\ Selected \subseteq DOMAIN filters
        /\ \A k \in 1..(Len(deps.funcs) - 1) : deps.funcs[k] < deps.funcs[k + 1]
        /\ \A x \in ProbeNames :
              LIn(x, deps.dep_elems) <=>
                  \E j \in Selected : LIn(x, filters[j].read_elems)
        /\ Selected = {} => deps.dep_elems = EmptySet

C19_Witness ==
    /\ deps.made
    /\ Len(filters) = 3
    /\ ~Meets(deps.elems, filters[2].write_elems)
    /\ deps.funcs = <<1, 2>>
    /\ LBool(filters[2].read_elems)
    /\ filters[2].read_elems # filters[1].read_elems


\* C13: a MultiFilter call invokes the sub-filters in declared order, each
\* on the output of the previous one; once a sub-filter returns None no
\* later one is invoked and the call returns None; otherwise the result is
\* the output of the last sub-filter.
C13_OrderedShortCircuit ==
    applied.made =>
        LET c == applied.calls
            n == Len(c)
        IN  /\ n <= Len(filters)
            /\ \A k \in 1..n :
                  /\ c[k].i = k
                  /\ c[k].arg = IF k = 1 THEN applied.ds ELSE c[k - 1].out
                  /\ c[k].arg # NoDs
                  /\ c[k].out = ApplyFunc(filters[k].func, c[k].arg)
            /\ IF \E k \in 1..n : c[k].out = NoDs
               THEN applied.out = NoDs
               ELSE /\ n = Len(filters)
                    /\ n > 0 => applied.out = c[n].out

C13_Witness ==
    /\ applied.made
    /\ Len(filters) = 3
    /\ Len(applied.calls) = 2
    /\ applied.calls[1].out # applied.ds
    /\ applied.out = NoDs


\* The state is the one FilterTransform(qr, filt) left behind
Constructed == last.op = "init" /\ last.func # NoVal

\* Source records the filter does not drop
Kept == {s \in last.src : ApplyFunc(last.func, s) # NoDs}

\* Source records whose output went into new
Done == {p[1] : p \in pairs}

\* C14: construction fails with DuplicateData at the first source record
\* whose output is already in new, with InconsistentData at the first output
\* that cannot be reconciled with new, and otherwise succeeds with new
\* holding exactly one record per source record the filter did not drop.
C14_ConstructionOutcome ==
    Constructed =>
        /\ Done \subseteq Kept
        /\ new = {ApplyFunc(last.func, s) : s \in Done}
        /\ Cardinality(new) = Cardinality(Done)
        /\ \A r \in new : ~QRInconsistent(new \ {r}, r)
        /\ CASE last.exc = NoVal ->
                   pc = "filter" /\ Done = Kept
             [] last.exc = "DuplicateData" ->
                   /\ pc = "failed"
                   /\ \E s \in Kept \ Done : ApplyFunc(last.func, s) \in new
             [] last.exc = "InconsistentData" ->
                   /\ pc = "failed"
                   /\ \E s \in Kept \ Done :
                         QRInconsistent(new, ApplyFunc(last.func, s))
             [] OTHER -> FALSE

C14_Witness ==
    /\ Constructed
    /\ last.exc = "DuplicateData"
    /\ Cardinality(last.src) = 2
    /\ Cardinality(new) = 1


\* The step is a call of DummyTransform.add
IsDummyAdd == pc = "dummy" /\ nAdds' = nAdds + 1

\* C15 as stated: DummyTransform.add(r, r) fails with DuplicateData and
\* leaves the collection unchanged if r is in old; otherwise r is inserted
\* and is in old and new afterwards; adding r again fails with
\* DuplicateData.
C15_DummyAddInsertsOrDuplicate ==
    [][IsDummyAdd =>
          LET r == last'.old_ds
          IN  /\ r \in old =>
                    last'.exc = "DuplicateData" /\ UNCHANGED <<old, new>>
              /\ r \notin old =>
                    last'.exc = NoVal /\ r \in old' /\ r \in new'
              /\ DummyAdd(old', r).exc = "DuplicateData"]_vars

\* C15 amended: DummyTransform.add(r, r) fails with DuplicateData if r is in
\* old and with InconsistentData if r cannot be reconciled with old, the
\* collection unchanged in both cases; otherwise r is inserted and old and
\* new are the collection with r added.  Adding a record that is in the
\* collection fails with DuplicateData and changes nothing.
C15_DummyAddChecked ==
    [][IsDummyAdd =>
          LET r == last'.old_ds
          IN  /\ new' = old'
              /\ CASE r \in old ->
                        last'.exc = "DuplicateData" /\ UNCHANGED <<old, new>>
                   [] QRInconsistent(old, r) ->
                        last'.exc = "InconsistentData"
                           /\ UNCHANGED <<old, new>>
                   [] OTHER ->
                        last'.exc = NoVal /\ old' = old \cup {r}
              /\ r \in old' =>
                    DummyAdd(old', r) = [exc |-> "DuplicateData",
                                         old |-> old']]_vars

C15_Witness ==
    /\ pc = "dummy"
    /\ last.op = "add"
    /\ last.exc = NoVal
    /\ last.old_ds \in old
    /\ Cardinality(old) = 2


\* C16: add(old_rec, None) never raises DuplicateData and leaves new, the
\* mapping and both ledgers unchanged; old gains old_rec iff old_rec was
\* neither a duplicate of old content nor inconsistent with it, and is
\* otherwise unchanged.
C16_DroppedRecordFrame ==
    [][(IsAdd /\ last'.new_ds = NoDs) =>
          LET r == last'.old_ds
          IN  /\ last'.exc # "DuplicateData"
              /\ UNCHANGED <<new, n2o, fixedInc, fixedDup>>
              /\ IF r \notin old /\ ~QRInconsistent(old, r)
                 THEN old' = old \cup {r} /\ old' # old
                 ELSE old' = old]_vars

C16_Witness ==
    /\ pc = "filter"
    /\ last.op = "add"
    /\ last.new_ds = NoDs
    /\ last.exc = NoVal
    /\ ~last.old_dupe
    /\ ~last.old_inconsistent
    /\ last.old_ds \in old
    /\ new # {}


\* What the reverse call recorded in last returns when it is made on the
\* current state
ReverseAgain ==
    IF pc = "filter" THEN FTReverse(Engine, last.new_qr, last.rl)
    ELSE DummyReverse(last.new_qr)

\* C17: reverse, on DummyTransform and on FilterTransform, never changes
\* the engine: whether it returns a bundle or fails with LevelMismatch, old,
\* new, the mapping and both ledgers are after the call what they were
\* before, and the same call made again gives the same result.
C17_ReverseDoesNotMutate ==
    [][(last'.op = "reverse") =>
          /\ UNCHANGED <<old, new, n2o, fixedInc, fixedDup, level, fullyInv>>
          /\ ReverseAgain' = last'.res]_vars

C17_Witness ==
    /\ pc = "filter"
    /\ nAdds > 0
    /\ last.op = "reverse"
    /\ last.res.exc = NoVal
    /\ last.res.qr # {}
    /\ fixedDup # EmptyLedger


\* The engine was built with make_edit_filter(edit_dict, update_uids=True)
IsUidEditEngine ==
    /\ Constructed
    /\ last.func = make_edit_filter(TRUE).func
    /\ last.decl = make_edit_filter(TRUE).decl

\* C18: the filter make_edit_filter builds with update_uids enabled declares
\* its identifier writes invertible: invertible_uids holds the identifier
\* attributes it remaps, so the engine built from it has a non-empty
\* fully_invertible and answers reverse at a coarser level.
C18_UidEditFilterInvertible ==
    IsUidEditEngine =>
        /\ \A l \in Levels : LIn(uid_elems[l], invertible_uids(last.decl))
        /\ LBool(fullyInv)
        /\ pc = "filter" =>
              \A rl \in Levels : \A q \in Requests(rl) :
                  rl < level =>
                      FTReverse(Engine, q, rl).exc # "QueryLevelMismatch"


\* The step is FilterTransform(qr, filt)
IsConstruct == pc = "start" /\ pc' \in {"filter", "failed"}

\* After the step the mapping of level l sends the level-l identifier of
\* the inserted new_ds to the level-l identifier of a data set it was
\* inserted for
MapsAtLevel(l, new_ds) ==
    /\ l \in DOMAIN new_ds
    /\ n2o'[l][new_ds[l]] \in
          {p[1][l] : p \in {q \in pairs' : q[2][l] = new_ds[l]}}

\* The mapping gains its entries at the levels of Ls and at no other level
MappedExactlyAt(Ls) ==
    /\ IsConstruct =>
          \A l \in Levels :
              IF l \in Ls
              THEN \A p \in pairs' : MapsAtLevel(l, p[2])
              ELSE n2o'[l] = n2o[l]
    /\ (IsAdd /\ new' # new) =>
          \A l \in Levels :
              IF l \in Ls
              THEN /\ MapsAtLevel(l, last'.new_ds)
                   /\ n2o'[l][last'.new_ds[l]] = last'.old_ds[l]
              ELSE n2o'[l] = n2o[l]

\* C20 as stated: a filtered record inserted into new, at construction or by
\* add, in an engine of level L gives the mapping an entry new identifier ->
\* old identifier at every level from the finest up to and including L, and
\* at no other level.
C20_MappedFromFinest ==
    [][MappedExactlyAt({l \in Levels : l >= level})]_vars

\* C20 amended: the entries are made at every level from the coarsest
\* (PATIENT) down to and including L, and at no finer level.
C20_MappedFromCoarsest ==
    [][MappedExactlyAt({l \in Levels : l <= level})]_vars

C20_Witness ==
    /\ pc = "filter"
    /\ level = 2
    /\ last.op = "add"
    /\ last.exc = NoVal
    /\ last.new_ds # NoDs
    /\ ~last.new_dupe
    /\ last.new_ds[1] # last.old_ds[1]
    /\ n2o[1][last.new_ds[1]] = last.old_ds[1]
    /\ n2o[2][last.new_ds[2]] = last.old_ds[2]
    /\ n2o[3] = EmptyMap[3]


\* C21: after add(R, R') succeeded with the check of R against old raising
\* InconsistentData, R is not in old, R is stashed in fixed_inconsistent
\* under the identifier of R', and reverse at the working level on any
\* subset containing R' returns R in the inconsistent list and makes no
\* sub-query of old on account of R'.
C21_FixedInconsistentSurfaced ==
    pc = "filter" =>
        /\ (last.op = "add" /\ last.exc = NoVal /\ last.old_inconsistent
                /\ last.new_ds # NoDs)
              => /\ fixedInc[get_uid(level, last.new_ds)] = last.old_ds
                 /\ last.old_ds \notin old
        /\ \A n \in new :
             fixedInc[get_uid(level, n)] # NoDs =>
                \A S \in SUBSET new :
                    n \in S =>
                        LET b  == FTReverse(Engine, S, level)
                            b0 == FTReverse(Engine, S \ {n}, level)
                        IN  /\ b.exc = NoVal
                            /\ fixedInc[get_uid(level, n)]
                                  \in Range(b.inconsistent)
                            /\ fixedInc[get_uid(level, n)] \notin b.qr
                            /\ b.qr = b0.qr

C21_Witness ==
    /\ pc = "filter"
    /\ last.op = "reverse"
    /\ last.rl = level
    /\ last.res.exc = NoVal
    /\ Len(last.res.inconsistent) > 0
    /\ Cardinality(last.new_qr) = 2


\* C26: add calls old.remove(old_rec) only when the same call inserted
\* old_rec into old: never on a record that was in old before the call, and
\* never on one that was not inserted because it is inconsistent with old.
C26_RemoveOnlyInserted ==
    (pc = "filter" /\ last.op = "add" /\ last.removed) =>
        ~last.old_dupe /\ ~last.old_inconsistent

\* Identifiers under which a ledger holds a data set
Keys(ledger) == {u \in UIDs : ledger[u] # NoDs}

\* The two ledgers are keyed apart, by identifiers of records of new that
\* the mapping of the working level knows
LedgersKeyed ==
    pc = "filter" =>
        /\ Keys(fixedDup) \cap Keys(fixedInc) = {}
        /\ \A u \in Keys(fixedDup) \cup Keys(fixedInc) :
              /\ \E n \in new : get_uid(level, n) = u
              /\ n2o[level][u] # NoUid

\* No step takes a record out of new or an entry out of the mapping
NewAndMappingGrow ==
    /\ new \subseteq new'
    /\ \A l \in Levels : \A u \in UIDs :
          n2o[l][u] # NoUid => n2o'[l][u] # NoUid

\* C27: in every FilterTransform state the key sets of fixed_duplicates and
\* fixed_inconsistent are disjoint, every key is the working-level
\* identifier of a record of new and a key of the working-level mapping,
\* and new and the mapping only grow.
C27_LedgerInvariants ==
    []LedgersKeyed /\ [][pc = "filter" => NewAndMappingGrow]_vars

C27_Witness ==
    /\ pc = "filter"
    /\ nAdds > 0
    /\ Keys(fixedDup) # {}
    /\ Cardinality(new) = 2
    /\ last.op = "add"
    /\ last.exc = NoVal
    /\ fixedDup[get_uid(level, last.new_ds)] = last.old_ds


\* C29: a chain of one filter answers a dependency query as the filter
\* itself does: the same function list and the same read set, for every
\* requested set.
C29_SingletonChainAsFilter ==
    (deps.made /\ Len(filters) = 1) =>
        [funcs |-> deps.funcs, dep_elems |-> deps.dep_elems] =
            FilterGetDependencies(filters[1], deps.elems)


(***************************************************************************)
(* Properties of Report and MultiListReport                                *)
(***************************************************************************)
\* The reports of a state: the MultiListReport under id 0, its sub-reports
\* under the ids they were appended with
ReportIds(m) == {0} \cup {m.subs[i].id : i \in DOMAIN m.subs}

ReportAt(m, id) ==
    IF id = 0 THEN m
    ELSE m.subs[CHOOSE i \in DOMAIN m.subs : m.subs[i].id = id]

\* The step made by the last done assignment did what the setter allows
DoneAssigned ==
    LET r  == ReportAt(report, rlast'.target)
        r2 == ReportAt(report', rlast'.target)
    IN  IF rlast'.val /\ ~r.done
        THEN /\ rlast'.exc = NoVal
             /\ r2.done
             /\ r2.ends = r.ends + (IF r.hook /\ r.task THEN 1 ELSE 0)
        ELSE /\ rlast'.exc = "ValueError"
             /\ report' = report

DoneStep ==
    /\ \A id \in ReportIds(report) \cap ReportIds(report') :
         /\ ReportAt(report, id).done => ReportAt(report', id).done
         /\ ReportAt(report', id).done /\ ~ReportAt(report, id).done
               => rlast' = [op |-> "set_done", target |-> id,
                            val |-> TRUE, exc |-> NoVal]
         /\ ReportAt(report', id).ends # ReportAt(report, id).ends
               => ~ReportAt(report, id).done /\ ReportAt(report', id).done
    /\ \A id \in ReportIds(report') \ ReportIds(report) :
         ~ReportAt(report', id).done /\ ReportAt(report', id).ends = 0
    /\ rlast'.op = "set_done" => DoneAssigned

\* C22: a report's done flag starts False and only ever goes to True:
\* assigning False raises ValueError, assigning True to a report that is
\* done raises ValueError, both leaving the report as it was, and the first
\* assignment of True sets the flag and ends the report's progress task,
\* when it has a hook and a task, exactly once.
C22_DoneOnlyOnce ==
    /\ (report # NotMade => ~report.done /\ report.ends = 0)
    /\ [][report # NotMade => DoneStep]_vars

C22_Witness ==
    /\ report # NotMade
    /\ report.done /\ report.ends = 1
    /\ rlast.op = "set_done" /\ rlast.val /\ rlast.exc = "ValueError"
    /\ \E i \in DOMAIN report.subs :
         /\ report.subs[i].id = rlast.target
         /\ report.subs[i].done /\ report.subs[i].ends = 1

\* Ids of the sub-reports, in order
SubIds(m) == [i \in DOMAIN m.subs |-> m.subs[i].id]

IsStrictlyIncreasing(s) ==
    \A i \in DOMAIN s : \A j \in DOMAIN s : i < j => s[i] < s[j]

ClearStep ==
    LET dropped == {i \in DOMAIN report.subs : report.subs[i].done}
        kept    == DOMAIN report.subs \ dropped
    IN  /\ {report'.subs[j].id : j \in DOMAIN report'.subs}
             = {report.subs[i].id : i \in kept}
        /\ IsStrictlyIncreasing(SubIds(report'))
        /\ \A j \in DOMAIN report'.subs :
             /\ ~report'.subs[j].done
             /\ report'.subs[j].n_input = 0
        /\ report'.n_input = Cardinality(kept)
        /\ report'.n_expected.known = report.n_expected.known
        /\ report.n_expected.known =>
               report'.n_expected.n
                   = report.n_expected.n - Cardinality(dropped)
        /\ report'.done = report.done

\* C23: MultiListReport.clear() drops exactly the sub-reports that are
\* done, keeps the others in order and clears each of them, sets n_input to
\* the number kept, and lowers n_expected, when it is known, by the number
\* dropped.
C23_ClearDropsDone ==
    [][report # NotMade /\ rlast'.op = "clear" => ClearStep]_vars

C23_Witness ==
    /\ report # NotMade
    /\ rlast.op = "clear"
    /\ report.appended = MaxSubs
    /\ Len(report.subs) = 1
    /\ report.subs[1].id = 2
    /\ report.n_input = 1
    /\ report.n_expected = Count(1)


(***************************************************************************)
(* Properties of _dir_crawl_worker and gen_chunks                          *)
(***************************************************************************)
\* The chunks the worker has put so far, by number
PutSoFar == [k \in 1..crawl.nput |-> k]

\* C25: when gen_chunks terminates the worker has finished, the queue is
\* empty, and the chunks yielded are the chunks the worker put, in order.
C25_GenYieldsEveryChunk ==
    gen # NotMade /\ gen.pc = "finished" =>
        /\ crawl.pc = "done"
        /\ resq = <<>>
        /\ [i \in DOMAIN gen.yielded |-> gen.yielded[i].seq] = PutSoFar

\* C28: once the shutdown event is set the worker examines at most 50
\* further paths.
C28_ShutdownStopsCrawl ==
    crawl # NotMade /\ crawl.shutdown = "set" => crawl.after <= PollEvery


(***************************************************************************)
(* Properties of LocalDir.send and _disk_write_worker                      *)
(***************************************************************************)
\* The data sets among the items of a sequence
DataSetsOf(items) == SelectSeq(items, LAMBDA x : ~x.none)

Outcomes == wreport.skipped + wreport.errors + wreport.success

\* C24: a context left normally (its body ended and its exit raised
\* nothing) has set report.done, and whenever report.done is set the
\* sentinel was put last, after every data set, the worker has left its
\* loop, and it has taken every data set put and made a report call for it.
C24_SendDrainsBeforeDone ==
    send # NotMade =>
        /\ send.pc = "closed" <=> wreport.done
        /\ wreport.done =>
              /\ send.puts # <<>>
              /\ send.puts[Len(send.puts)] = EndOfStream
              /\ \A i \in 1..(Len(send.puts) - 1) :
                    send.puts[i] = DataSet(i)
              /\ send.worker = "exited"
              /\ send.took = send.puts
              /\ send.q = <<>>
              /\ Outcomes = Len(DataSetsOf(send.puts))

C24_Witness ==
    /\ send # NotMade
    /\ wreport.done
    /\ send.pc = "closed"
    /\ Len(send.puts) = MaxPuts + 1
    /\ wreport.skipped > 0
    /\ wreport.errors > 0
    /\ wreport.success > 0

\* The caller waits on a full queue that nobody takes from any more
ProducerBlocked ==
    /\ send # NotMade
    /\ send.worker = "died"
    /\ send.pc \in {"body", "put_none"}
    /\ Len(send.q) = QueueSize

\* C30: no data set ends the worker, every data set the worker has taken
\* has one report outcome, and the caller never waits on a queue that
\* nobody takes from.
C30_EveryDataSetReported ==
    send # NotMade =>
        /\ send.worker # "died"
        /\ Outcomes = Len(DataSetsOf(send.took))
        /\ ~ProducerBlocked
====
